---- MODULE Spec2Model ----
(***************************************************************************)
(* Model of the IHC structuring engine (src/ihc_tool/ihc_engine.py).       *)
(*                                                                         *)
(* Text is modelled as a sequence of lower-case tokens separated by single *)
(* blanks.  Every token is one regex word (\w+) unless it is listed in     *)
(* PunctTokens, so a word boundary (\b) of the source's regular            *)
(* expressions is a token boundary and \s+ is the gap between two          *)
(* neighbouring tokens.  A character span of the source is the token span  *)
(* <<first token, token after the last>>.  Python's None is the string     *)
(* "None"; an optional float is <<>> (None) or <<v>>.  The input text is   *)
(* lower case: every regular expression but UNKNOWN_MARKER_RE ignores      *)
(* case, and that one is modelled for lower-case text.                     *)
(***************************************************************************)
EXTENDS Integers, Sequences, FiniteSets, TLC

None == "None"

(***************************************************************************)
(* Regular expressions of the module, as token sets                        *)
(***************************************************************************)
\* the one-word alternatives of DIAGNOSTIC_RE
DIAGNOSTIC_RE == {"support", "supports", "favor", "favour", "favours",
                  "primary", "metastasis", "metastatic"}
\* its two-word alternatives ("consistent with", "suggestive of")
DIAGNOSTIC_PAIRS == {<<"consistent", "with">>, <<"suggestive", "of">>}
RESULT_POS_RE == {"positive", "positivity"}
RESULT_NEG_RE == {"negative"}
RESULT_NOT_DONE_RE == {"awaited", "pending"}
PATTERN_RE == {"nuclear", "cytoplasmic", "membranous"}
INTENSITY_RE == {"weak", "moderate", "strong"}
EXTENT_RE == {"focal", "diffuse"}
CONTROL_RE == {"control", "controls"}
ADEQUATE_RE == {"adequate", "fine"}
HEDGE_RE == {"maybe", "around"}

\* tokens that are not regex words
PunctTokens == {",", "%", "%of", "30%", "30%of"}
\* a percent sign directly followed by a word character ("30 %of")
PercentGlued == {"%of"}
\* one to three digits, a percent sign and a word character ("30%of")
DigitsGlued == ("30%of" :> 30)
\* the word a token ends with, when the token does not start with it
WordTail == ("%of" :> "of") @@ ("30%of" :> "of")
\* tokens made of one to three digits, with their value
Digits == ("0" :> 0) @@ ("5" :> 5) @@ ("10" :> 10) @@ ("20" :> 20) @@
          ("30" :> 30) @@ ("150" :> 150) @@ ("6" :> 6)
\* tokens of the shape [A-Za-z]{2,}\d*, with their length
LetterTokens == ("to" :> 2) @@ ("er" :> 2) @@ ("pr" :> 2) @@ ("cdx2" :> 4) @@
                ("ttf1" :> 4) @@ ("her2" :> 4) @@ ("ck7" :> 3) @@
                ("positive" :> 8) @@ ("negative" :> 8) @@ ("pending" :> 7) @@
                ("nuclear" :> 7) @@ ("membranous" :> 10) @@
                ("cytoplasmic" :> 11) @@ ("strong" :> 6) @@ ("weak" :> 4) @@
                ("focal" :> 5) @@ ("diffuse" :> 7) @@ ("percent" :> 7) @@
                ("maybe" :> 5) @@ ("around" :> 6) @@ ("for" :> 3) @@
                ("controls" :> 8) @@ ("adequate" :> 8) @@
                ("inadequate" :> 10) @@ ("thirty" :> 6) @@ ("zero" :> 4) @@
                ("supports" :> 8) @@ ("staining" :> 8) @@
                ("support" :> 7) @@ ("favor" :> 5) @@ ("favour" :> 6) @@
                ("favours" :> 7) @@ ("primary" :> 7) @@ ("metastasis" :> 10) @@
                ("metastatic" :> 10) @@ ("consistent" :> 10) @@ ("with" :> 4) @@
                ("suggestive" :> 10) @@ ("of" :> 2) @@ ("positivity" :> 10) @@
                ("awaited" :> 7) @@ ("not" :> 3) @@ ("done" :> 4) @@
                ("moderate" :> 8) @@ ("control" :> 7) @@ ("fine" :> 4) @@
                ("kind" :> 4) @@ ("ck" :> 2) @@ ("ten" :> 3) @@
                ("twenty" :> 6) @@ ("forty" :> 5) @@ ("fifty" :> 5) @@
                ("sixty" :> 5) @@ ("seventy" :> 7) @@ ("eighty" :> 6) @@
                ("ninety" :> 6) @@ ("hundred" :> 7)
\* tokens that contain the substring "inadequate"
InadequateTokens == {"inadequate"}

WORDS == ("zero" :> 0) @@ ("ten" :> 10) @@ ("twenty" :> 20) @@
         ("thirty" :> 30) @@ ("forty" :> 40) @@ ("fifty" :> 50) @@
         ("sixty" :> 60) @@ ("seventy" :> 70) @@ ("eighty" :> 80) @@
         ("ninety" :> 90) @@ ("hundred" :> 100)

IsWord(tok) == tok \notin PunctTokens
\* the token ends with a whole word (\b\w+ matches right up to its end)
EndsInWord(tok) == IsWord(tok) \/ tok \in DOMAIN WordTail
\* that word
LastWord(tok) == IF tok \in DOMAIN WordTail THEN WordTail[tok] ELSE tok

\* index of the first token of t that satisfies a set membership, 0 if none
FirstIn(t, S) ==
    IF \E i \in 1..Len(t) : t[i] \in S
    THEN CHOOSE i \in 1..Len(t) : t[i] \in S /\ \A j \in 1..(i - 1) : t[j] \notin S
    ELSE 0

\* first group of re.search over a one-word alternation
SearchWord(t, S) == IF FirstIn(t, S) = 0 THEN None ELSE t[FirstIn(t, S)]

\* two neighbouring words a, b ("not done", "kind of", "negative for")
HasPair(t, a, b) == \E i \in 1..(Len(t) - 1) : t[i] = a /\ t[i + 1] = b

\* DIAGNOSTIC_RE.search(raw) is not None
DiagnosticSearch(t) ==
    \/ \E i \in 1..Len(t) : t[i] \in DIAGNOSTIC_RE
    \/ \E pr \in DIAGNOSTIC_PAIRS : HasPair(t, pr[1], pr[2])

_to_num_word(token) == IF token \in DOMAIN WORDS THEN <<WORDS[token]>> ELSE <<>>

\* positions where "NN%" followed by a word character starts
PctSignAt(t) ==
    {i \in 1..Len(t) :
       \/ t[i] \in DOMAIN DigitsGlued
       \/ i < Len(t) /\ t[i] \in DOMAIN Digits /\ t[i + 1] \in PercentGlued}
\* group 1 of the "NN%" match that starts at token i
PctSignValue(t, i) ==
    IF t[i] \in DOMAIN DigitsGlued THEN DigitsGlued[t[i]] ELSE Digits[t[i]]
\* positions where "NN percent" starts
PctWordAt(t) == {i \in 1..(Len(t) - 1) : t[i] \in DOMAIN Digits /\ t[i + 1] = "percent"}
\* positions where "<word> percent" starts
AnyPctAt(t) == {i \in 1..(Len(t) - 1) : EndsInWord(t[i]) /\ t[i + 1] = "percent"}
\* positions where "<word> to <word> percent" starts
RangeAt(t) == {i \in 1..(Len(t) - 3) :
                 /\ EndsInWord(t[i]) /\ t[i + 1] = "to"
                 /\ IsWord(t[i + 2]) /\ t[i + 3] = "percent"}

Min(S) == CHOOSE x \in S : \A y \in S : x <= y

\* mutant: an exact percent is looked for before the range
_parse_percent_exact_first(t) ==
    IF PctSignAt(t) # {}
    THEN [percent |-> <<PctSignValue(t, Min(PctSignAt(t)))>>, approximate |-> FALSE]
    ELSE IF PctWordAt(t) # {}
         THEN [percent |-> <<Digits[t[Min(PctWordAt(t))]]>>, approximate |-> FALSE]
    ELSE IF RangeAt(t) # {} THEN [percent |-> <<>>, approximate |-> TRUE]
    ELSE IF AnyPctAt(t) # {}
         THEN [percent |-> _to_num_word(LastWord(t[Min(AnyPctAt(t))])),
               approximate |-> FALSE]
    ELSE [percent |-> <<>>, approximate |-> FALSE]

\* returns [percent |-> <<>> or <<v>>, approximate |-> BOOLEAN]
_parse_percent(t) ==
    IF RangeAt(t) # {} THEN [percent |-> <<>>, approximate |-> TRUE]
    ELSE IF PctSignAt(t) # {}
         THEN [percent |-> <<PctSignValue(t, Min(PctSignAt(t)))>>, approximate |-> FALSE]
    ELSE IF PctWordAt(t) # {}
         THEN [percent |-> <<Digits[t[Min(PctWordAt(t))]]>>, approximate |-> FALSE]
    ELSE IF AnyPctAt(t) # {}
         THEN [percent |-> _to_num_word(LastWord(t[Min(AnyPctAt(t))])),
               approximate |-> FALSE]
    ELSE [percent |-> <<>>, approximate |-> FALSE]

\* mutant: Positive is looked for before Not Done
ExtractResultPositiveFirst(t) ==
    IF \E i \in 1..Len(t) : t[i] \in RESULT_POS_RE THEN "Positive"
    ELSE IF (\E i \in 1..Len(t) : t[i] \in RESULT_NOT_DONE_RE) \/ HasPair(t, "not", "done")
    THEN "Not Done"
    ELSE IF \E i \in 1..Len(t) : t[i] \in RESULT_NEG_RE THEN "Negative"
    ELSE None

ExtractResult(t) ==
    IF (\E i \in 1..Len(t) : t[i] \in RESULT_NOT_DONE_RE) \/ HasPair(t, "not", "done")
    THEN "Not Done"
    ELSE IF \E i \in 1..Len(t) : t[i] \in RESULT_POS_RE THEN "Positive"
    ELSE IF \E i \in 1..Len(t) : t[i] \in RESULT_NEG_RE THEN "Negative"
    ELSE None

ExtractControls(t) ==
    IF \E i \in 1..Len(t) : t[i] \in CONTROL_RE
    THEN IF \E i \in 1..Len(t) : t[i] \in InadequateTokens THEN "inadequate"
         ELSE IF \E i \in 1..Len(t) : t[i] \in ADEQUATE_RE THEN "adequate"
         ELSE "not mentioned"
    ELSE "not mentioned"

ExtractConfidence(t) ==
    IF (\E i \in 1..Len(t) : t[i] \in HEDGE_RE) \/ HasPair(t, "kind", "of")
    THEN "uncertain" ELSE "explicit"

_extract_clause_data(t) ==
    [result |-> ExtractResult(t),
     pattern |-> SearchWord(t, PATTERN_RE),
     intensity |-> SearchWord(t, INTENSITY_RE),
     extent |-> SearchWord(t, EXTENT_RE),
     percent_positive |-> _parse_percent(t).percent,
     percent_approximate |-> _parse_percent(t).approximate,
     controls |-> ExtractControls(t),
     confidence |-> ExtractConfidence(t)]

(***************************************************************************)
(* Marker dictionary                                                       *)
(***************************************************************************)
MarkerDef(can, name, aliases, hard, allowed, pct, inten) ==
    [marker_canonical |-> can, display_name |-> name, aliases |-> aliases,
     hard_pattern_enforce |-> hard, allowed_patterns |-> allowed,
     requirements |-> [percent_required |-> pct, intensity_required |-> inten]]

\* alias -> MarkerDef; a later definition of the same alias replaces an earlier one
_load_dict(defs) ==
    LET owners(a) == {i \in 1..Len(defs) :
                        \E k \in 1..Len(defs[i].aliases) : defs[i].aliases[k] = a}
        all == UNION {{defs[i].aliases[k] : k \in 1..Len(defs[i].aliases)} :
                      i \in 1..Len(defs)}
    IN  [a \in all |-> defs[CHOOSE i \in owners(a) : \A j \in owners(a) : j <= i]]

(***************************************************************************)
(* Marker locator                                                          *)
(***************************************************************************)
\* re.finditer of one alias: non-overlapping matches, scanning from token p
RECURSIVE FindIter(_, _, _)
FindIter(t, alias, p) ==
    IF p + Len(alias) - 1 > Len(t) THEN {}
    ELSE IF SubSeq(t, p, p + Len(alias) - 1) = alias
         THEN {<<p, p + Len(alias)>>} \cup FindIter(t, alias, p + Len(alias))
         ELSE FindIter(t, alias, p + 1)

\* every match of every alias: (md, span, matched text)
AllMatches(t, alias_map) ==
    UNION {{[md |-> alias_map[a], span |-> sp, text |-> a] : sp \in FindIter(t, a, 1)} :
           a \in DOMAIN alias_map}

\* sort key (start, -(end - start))
KeyLess(x, y) ==
    \/ x.span[1] < y.span[1]
    \/ x.span[1] = y.span[1] /\ (x.span[2] - x.span[1]) > (y.span[2] - y.span[1])

RECURSIVE SortFound(_)
SortFound(S) ==
    IF S = {} THEN <<>>
    ELSE LET m == CHOOSE x \in S : \A y \in S \ {x} : KeyLess(x, y)
         IN  <<m>> \o SortFound(S \ {m})

\* a candidate is dropped when an accepted span contains it
Contained(item, used) ==
    \E k \in 1..Len(used) : item.span[1] >= used[k].span[1] /\ item.span[2] <= used[k].span[2]

RECURSIVE Dedup(_, _)
Dedup(found, dedup) ==
    IF found = <<>> THEN dedup
    ELSE IF Contained(Head(found), dedup)
         THEN Dedup(Tail(found), dedup)
         ELSE Dedup(Tail(found), Append(dedup, Head(found)))

_find_markers(t, alias_map) == Dedup(SortFound(AllMatches(t, alias_map)), <<>>)

(***************************************************************************)
(* Segment scoper                                                          *)
(***************************************************************************)
\* sorted(marker_spans, key = start): stable insertion sort
RECURSIVE InsertByStart(_, _)
InsertByStart(sorted, x) ==
    IF sorted = <<>> THEN <<x>>
    ELSE IF x.span[1] < Head(sorted).span[1] THEN <<x>> \o sorted
    ELSE <<Head(sorted)>> \o InsertByStart(Tail(sorted), x)

RECURSIVE SortByStart(_)
SortByStart(s) ==
    IF s = <<>> THEN <<>>
    ELSE InsertByStart(SortByStart(SubSeq(s, 1, Len(s) - 1)), s[Len(s)])

\* str.strip(' ,;'): blanks are implicit, a comma is a token
StripChars == {","}
RECURSIVE Strip(_)
Strip(t) ==
    IF t = <<>> THEN t
    ELSE IF Head(t) \in StripChars THEN Strip(Tail(t))
    ELSE IF t[Len(t)] \in StripChars THEN Strip(SubSeq(t, 1, Len(t) - 1))
    ELSE t

\* mutant: every segment runs to the end of the clause
SegmentEndOfClause(clause, ordered, idx) == Len(clause)

\* the segment of mention idx runs from its start to the next mention's start
SegmentEnd(clause, ordered, idx) ==
    IF idx + 1 <= Len(ordered) THEN ordered[idx + 1].span[1] - 1 ELSE Len(clause)

split_clause_by_markers(clause, marker_spans) ==
    LET ordered == SortByStart(marker_spans)
    IN  [idx \in 1..Len(ordered) |->
            [marker_canonical |-> ordered[idx].md.marker_canonical,
             display_name |-> ordered[idx].md.display_name,
             segment_text |-> Strip(SubSeq(clause, ordered[idx].span[1],
                                           SegmentEnd(clause, ordered, idx)))]]

\* UNKNOWN_MARKER_RE.finditer: "<letters+digits> positive|negative", scanning from p;
\* group 1 is the word token p ends with (the whole token, or the word after
\* the percent sign of a glued token); the groups longer than two characters,
\* in order
RECURSIVE UnknownTokens(_, _)
UnknownTokens(t, p) ==
    IF p + 1 > Len(t) THEN <<>>
    ELSE IF /\ LastWord(t[p]) \in DOMAIN LetterTokens
            /\ t[p + 1] \in {"positive", "negative"}
         THEN (IF LetterTokens[LastWord(t[p])] <= 2 THEN <<>> ELSE <<LastWord(t[p])>>)
              \o UnknownTokens(t, p + 2)
         ELSE UnknownTokens(t, p + 1)

(***************************************************************************)
(* Marker state merger and validation rules                                *)
(***************************************************************************)
Issue(code, severity, can, fld) ==
    [code |-> code, severity |-> severity, marker_canonical |-> can, field |-> fld]

\* MarkerState(marker_name, marker_canonical) with the dataclass defaults;
\* evidence is kept as the number of evidence records
MarkerState(name, can) ==
    [marker_name |-> name, marker_canonical |-> can, result |-> None,
     pattern |-> None, intensity |-> None, percent_positive |-> <<>>,
     extent |-> None, controls |-> "not mentioned", comment |-> None,
     confidence |-> "explicit", evidence |-> 0, percent_approximate |-> FALSE]

\* position of a canonical id in the (insertion-ordered) markers mapping, 0 if absent
IndexOf(ms, can) ==
    IF \E i \in 1..Len(ms) : ms[i].marker_canonical = can
    THEN CHOOSE i \in 1..Len(ms) : ms[i].marker_canonical = can
    ELSE 0

\* the segment's data after the clause-level and "negative for" fallbacks
SegmentData(segment_text, cl_data, neg_for) ==
    LET cd == _extract_clause_data(segment_text)
        r1 == IF cd.result = None /\ cl_data.result \in {"Positive", "Negative", "Not Done"}
              THEN cl_data.result ELSE cd.result
        r2 == IF neg_for /\ r1 = None THEN "Negative" ELSE r1
    IN  [cd EXCEPT !.result = r2]

\* mutant: intensity is not counted as a supporting attribute
has_supporting_attributes_no_intensity(cd) ==
    \/ cd.pattern # None
    \/ cd.percent_positive # <<>>
    \/ cd.percent_approximate
    \/ cd.extent # None

has_supporting_attributes(cd) ==
    \/ cd.intensity # None
    \/ cd.pattern # None
    \/ cd.percent_positive # <<>>
    \/ cd.percent_approximate
    \/ cd.extent # None

\* the result written by the merge: the segment's result, or Positive when inferred
InferredResult(cd) ==
    IF cd.result = None /\ has_supporting_attributes(cd) THEN "Positive" ELSE cd.result

\* one pass of the segment loop body on marker state ms
MergeState(ms, cd) ==
    LET inferred == cd.result = None /\ has_supporting_attributes(cd)
        inferred_result == InferredResult(cd)
    IN  [ms EXCEPT
           !.result = IF inferred_result # None THEN inferred_result ELSE @,
           !.pattern = IF cd.pattern # None THEN cd.pattern ELSE @,
           !.intensity = IF cd.intensity # None THEN cd.intensity ELSE @,
           !.extent = IF cd.extent # None THEN cd.extent ELSE @,
           !.percent_positive = IF cd.percent_positive # <<>> THEN cd.percent_positive ELSE @,
           !.controls = IF cd.controls # "not mentioned" THEN cd.controls ELSE @,
           !.confidence = IF cd.confidence # "explicit" THEN "uncertain"
                          ELSE IF inferred THEN "inferred" ELSE @,
           !.percent_approximate = IF cd.percent_approximate THEN TRUE ELSE @,
           !.evidence = @ + 1]

\* mutant: any second non-null result is reported, equal or not
MergeErrorsAnyRepeat(ms, cd, can) ==
    IF InferredResult(cd) # None /\ ms.result # None
    THEN <<Issue("CONTRADICTORY_RESULT", "error", can, "result")>>
    ELSE <<>>

MergeErrors(ms, cd, can) ==
    IF InferredResult(cd) # None /\ ms.result # None /\ ms.result # InferredResult(cd)
    THEN <<Issue("CONTRADICTORY_RESULT", "error", can, "result")>>
    ELSE <<>>

MergeWarnings(cd, can) ==
    (IF cd.result = None /\ has_supporting_attributes(cd)
     THEN <<Issue("RESULT_INFERRED", "warning", can, "result")>> ELSE <<>>)
    \o (IF cd.confidence # "explicit"
        THEN <<Issue("LOW_CONFIDENCE", "warning", can, None)>> ELSE <<>>)
    \o (IF cd.percent_approximate
        THEN <<Issue("PERCENT_APPROXIMATE", "warning", can, "percent_positive")>> ELSE <<>>)

\* defs_by_can: the last definition of a canonical id
DefOf(defs, can) ==
    defs[CHOOSE i \in 1..Len(defs) :
           /\ defs[i].marker_canonical = can
           /\ \A j \in 1..Len(defs) : defs[j].marker_canonical = can => j <= i]

\* mutant: a percent of 100 only
NegativeWithFullPercent(ms) ==
    ms.result = "Negative" /\ ms.percent_positive # <<>> /\ ms.percent_positive[1] >= 100

\* line 274
NegativeWithPercent(ms) ==
    ms.result = "Negative" /\ ms.percent_positive # <<>> /\ ms.percent_positive[1] > 0

\* mutant: a missing pattern is not skipped
PatternOutsideOrMissing(ms, md) == ms.pattern \notin md.allowed_patterns

\* line 277
PatternOutside(ms, md) == ms.pattern # None /\ ms.pattern \notin md.allowed_patterns

\* the validation rules of one marker, in source order
ValidateErrors(ms, md) ==
    LET can == ms.marker_canonical
        req == md.requirements
    IN  (IF ms.result = None
         THEN <<Issue("RESULT_MISSING", "error", can, "result")>> ELSE <<>>)
     \o (IF NegativeWithPercent(ms)
         THEN <<Issue("CONTRADICTORY_RESULT_PERCENT", "error", can, "percent_positive")>>
         ELSE <<>>)
     \o (IF PatternOutside(ms, md) /\ md.hard_pattern_enforce
         THEN <<Issue("INVALID_PATTERN", "error", can, "pattern")>> ELSE <<>>)
     \o (IF /\ req.percent_required /\ ms.result # "Not Done"
            /\ ms.percent_positive = <<>> /\ ~ms.percent_approximate
         THEN <<Issue("PERCENT_REQUIRED_MISSING", "error", can, "percent_positive")>>
         ELSE <<>>)
     \o (IF req.intensity_required /\ ms.result # "Not Done" /\ ms.intensity = None
         THEN <<Issue("INTENSITY_REQUIRED_MISSING", "error", can, "intensity")>> ELSE <<>>)
     \o (IF /\ ms.percent_positive # <<>>
            /\ ~(0 <= ms.percent_positive[1] /\ ms.percent_positive[1] <= 100)
         THEN <<Issue("PERCENT_OUT_OF_RANGE", "error", can, "percent_positive")>> ELSE <<>>)

ValidateWarnings(ms, md) ==
    LET can == ms.marker_canonical
        req == md.requirements
    IN  (IF PatternOutside(ms, md) /\ ~md.hard_pattern_enforce
         THEN <<Issue("UNUSUAL_PATTERN", "warning", can, "pattern")>> ELSE <<>>)
     \o (IF /\ req.percent_required /\ ms.result # "Not Done"
            /\ ms.percent_positive = <<>> /\ ms.percent_approximate
         THEN <<Issue("PERCENT_REQUIRED_MISSING", "warning", can, "percent_positive")>>
         ELSE <<>>)

RECURSIVE ValidateAllErrors(_, _)
ValidateAllErrors(ms, defs) ==
    IF ms = <<>> THEN <<>>
    ELSE ValidateErrors(Head(ms), DefOf(defs, Head(ms).marker_canonical))
         \o ValidateAllErrors(Tail(ms), defs)

RECURSIVE ValidateAllWarnings(_, _)
ValidateAllWarnings(ms, defs) ==
    IF ms = <<>> THEN <<>>
    ELSE ValidateWarnings(Head(ms), DefOf(defs, Head(ms).marker_canonical))
         \o ValidateAllWarnings(Tail(ms), defs)

\* mutant: warnings do not lower the status
StatusOfIgnoringWarnings(errs, warns) == IF errs # <<>> THEN "failed" ELSE "ok"

\* lines 322-326
StatusOf(errs, warns) ==
    IF errs # <<>> THEN "failed"
    ELSE IF warns # <<>> THEN "needs_review"
    ELSE "ok"

(***************************************************************************)
(* Inputs: the marker dictionary and the clauses of the raw text           *)
(***************************************************************************)
MaxClauses == 2
MaxPhrases == 3

Dictionary ==
    <<MarkerDef("TTF1", "TTF-1", <<(<<"ttf1">>)>>, TRUE, {"nuclear"}, FALSE, FALSE),
      MarkerDef("HER2", "HER2", <<(<<"her2">>)>>, FALSE, {"membranous"}, TRUE, FALSE)>>

Phrases ==
    {<<"ttf1">>, <<"her2">>, <<"positive">>, <<"negative">>, <<"pending">>,
     <<"nuclear">>, <<"membranous">>, <<"strong">>, <<"maybe">>,
     <<"30", "percent">>, <<"10", "to", "20", "percent">>}

RECURSIVE Flatten(_)
Flatten(ps) == IF ps = <<>> THEN <<>> ELSE Head(ps) \o Flatten(Tail(ps))

\* the clauses _split_clauses can return: non-empty, at most MaxPhrases phrases
ClauseInputs ==
    {Flatten(ps) : ps \in UNION {[1..n -> Phrases] : n \in 1..MaxPhrases}}

(***************************************************************************)
(* process_case as a state machine                                         *)
(***************************************************************************)
VARIABLES
    defs,                 \* _defs: the marker dictionary
    alias_map,            \* alias -> MarkerDef
    pc,                   \* "clauses" | "extract" | "merge" | "clause_end" | "done"
    nclauses,             \* clauses consumed so far
    clause,               \* the clause of the current iteration
    found,                \* its marker mentions
    marker_segments,      \* the segments not yet merged
    clause_level_data,    \* _extract_clause_data(clause)
    negative_for_clause,
    clause_data,          \* data of the segment at the head of marker_segments
    markers,              \* insertion-ordered canonical id -> MarkerState
    errors,
    warnings,
    status,
    computed              \* history: per merged segment, <<canonical id, written result>>

vars == <<defs, alias_map, pc, nclauses, clause, found, marker_segments,
          clause_level_data, negative_for_clause, clause_data, markers,
          errors, warnings, status, computed>>

NoData == _extract_clause_data(<<>>)

\* raw text with or without diagnostic language in front of its clauses
Init ==
    /\ defs = Dictionary
    /\ alias_map = _load_dict(Dictionary)
    /\ pc = "clauses"
    /\ nclauses = 0
    /\ clause = <<>>
    /\ found = <<>>
    /\ marker_segments = <<>>
    /\ clause_level_data = NoData
    /\ negative_for_clause = FALSE
    /\ clause_data = NoData
    /\ markers = <<>>
    /\ errors = <<>>
    /\ \E diagnostic \in BOOLEAN :
         warnings = IF diagnostic
                    THEN <<Issue("DIAGNOSTIC_LANGUAGE_DETECTED", "warning", None, None)>>
                    ELSE <<>>
    /\ status = None
    /\ computed = <<>>

UnknownMarkerErrors(t) ==
    [i \in 1..Len(UnknownTokens(t, 1)) |-> Issue("UNKNOWN_MARKER", "error", None, "marker_name")]

\* one iteration of "for clause in clauses" up to the segment loop (lines 198-202)
BeginClause(c) ==
    /\ pc = "clauses"
    /\ nclauses' = nclauses + 1
    /\ clause' = c
    /\ found' = _find_markers(c, alias_map)
    /\ marker_segments' = split_clause_by_markers(c, _find_markers(c, alias_map))
    /\ negative_for_clause' = HasPair(c, "negative", "for")
    /\ clause_level_data' = _extract_clause_data(c)
    /\ pc' = IF _find_markers(c, alias_map) = <<>> THEN "clause_end" ELSE "extract"
    /\ UNCHANGED <<defs, alias_map, clause_data, markers, errors, warnings, status,
                   computed>>

\* lines 205-209: the data of the next segment, with the fallbacks
ExtractSegment ==
    /\ pc = "extract"
    /\ clause_data' = SegmentData(Head(marker_segments).segment_text,
                                  clause_level_data, negative_for_clause)
    /\ pc' = "merge"
    /\ UNCHANGED <<defs, alias_map, nclauses, clause, found, marker_segments,
                   clause_level_data, negative_for_clause, markers, errors, warnings,
                   status, computed>>

\* lines 211-253: merge the segment into its marker's state
MergeSegment ==
    /\ pc = "merge"
    /\ LET seg == Head(marker_segments)
           can == seg.marker_canonical
           i == IndexOf(markers, can)
           ms == IF i = 0 THEN MarkerState(seg.display_name, can) ELSE markers[i]
           merged == MergeState(ms, clause_data)
       IN  /\ markers' = IF i = 0 THEN Append(markers, merged)
                         ELSE [markers EXCEPT ![i] = merged]
           /\ errors' = errors \o MergeErrors(ms, clause_data, can)
           /\ warnings' = warnings \o MergeWarnings(clause_data, can)
           /\ computed' = Append(computed, <<can, InferredResult(clause_data)>>)
    /\ marker_segments' = Tail(marker_segments)
    /\ clause_data' = NoData
    /\ pc' = IF Tail(marker_segments) = <<>> THEN "clause_end" ELSE "extract"
    /\ UNCHANGED <<defs, alias_map, nclauses, clause, found, clause_level_data,
                   negative_for_clause, status>>

\* lines 255-261: the unknown-marker scan of a clause without mentions; the
\* clause's locals are dead afterwards
EndClause ==
    /\ pc = "clause_end"
    /\ errors' = IF found = <<>> THEN errors \o UnknownMarkerErrors(clause) ELSE errors
    /\ clause' = <<>>
    /\ found' = <<>>
    /\ clause_level_data' = NoData
    /\ negative_for_clause' = FALSE
    /\ pc' = "clauses"
    /\ UNCHANGED <<defs, alias_map, nclauses, marker_segments, clause_data, markers,
                   warnings, status, computed>>

\* mutant: NO_MARKERS_FOUND whenever no marker has a result
NoMarkersErrorsNoResult(ms) ==
    IF \A i \in 1..Len(ms) : ms[i].result = None
    THEN <<Issue("NO_MARKERS_FOUND", "error", None, None)>> ELSE <<>>

\* lines 263-264
NoMarkersErrors(ms) ==
    IF ms = <<>> THEN <<Issue("NO_MARKERS_FOUND", "error", None, None)>> ELSE <<>>

\* lines 263-326: NO_MARKERS_FOUND, the validation rules and the status
Finish ==
    /\ pc = "clauses"
    /\ LET errs == errors
                   \o NoMarkersErrors(markers)
                   \o ValidateAllErrors(markers, defs)
           warns == warnings \o ValidateAllWarnings(markers, defs)
       IN  /\ errors' = errs
           /\ warnings' = warns
           /\ status' = StatusOf(errs, warns)
    /\ pc' = "done"
    /\ UNCHANGED <<defs, alias_map, nclauses, clause, found, marker_segments,
                   clause_level_data, negative_for_clause, clause_data, markers,
                   computed>>

Next ==
    \/ (pc = "clauses" /\ nclauses < MaxClauses /\ \E c \in ClauseInputs : BeginClause(c))
    \/ ExtractSegment
    \/ MergeSegment
    \/ EndClause
    \/ Finish

Spec == Init /\ [][Next]_vars

(***************************************************************************)
(* A single clause over a wider vocabulary                                 *)
(***************************************************************************)
MaxPhrasesWide == 4

PhrasesWide ==
    {<<"ttf1">>, <<"her2">>, <<"positive">>, <<"negative">>, <<"pending">>,
     <<"membranous">>, <<"strong">>, <<"focal">>, <<"maybe">>,
     <<"30", "percent">>, <<"10", "to", "20", "percent">>,
     <<"controls", "adequate">>}

ClauseInputsWide ==
    {Flatten(ps) : ps \in UNION {[1..n -> PhrasesWide] : n \in 1..MaxPhrasesWide}}

NextWide ==
    \/ (pc = "clauses" /\ nclauses = 0 /\ \E c \in ClauseInputsWide : BeginClause(c))
    \/ ExtractSegment
    \/ MergeSegment
    \/ EndClause
    \/ Finish

\* raw text of one clause, without diagnostic language
InitWide == Init /\ warnings = <<>>

SpecWide == InitWide /\ [][NextWide]_vars

(***************************************************************************)
(* The marker locator alone, over arbitrary alias maps                     *)
(***************************************************************************)
MaxAliasLen == 2
MaxAliases == 2
MaxClauseLen == 3

LocatorTokens == {"ck", "5", "6"}
SeqsUpTo(S, n) == UNION {[1..k -> S] : k \in 1..n}
LocatorDefs ==
    {MarkerDef("CK5", "CK5", <<>>, FALSE, {}, FALSE, FALSE),
     MarkerDef("CK6", "CK6", <<>>, FALSE, {}, FALSE, FALSE)}
AliasMaps ==
    UNION {[A -> LocatorDefs] :
           A \in {B \in SUBSET SeqsUpTo(LocatorTokens, MaxAliasLen) :
                    Cardinality(B) \in 1..MaxAliases}}

InitLocator ==
    /\ defs = <<>>
    /\ alias_map \in AliasMaps
    /\ pc = "locate"
    /\ nclauses = 0
    /\ clause \in SeqsUpTo(LocatorTokens, MaxClauseLen)
    /\ found = <<>>
    /\ marker_segments = <<>>
    /\ clause_level_data = NoData
    /\ negative_for_clause = FALSE
    /\ clause_data = NoData
    /\ markers = <<>>
    /\ errors = <<>>
    /\ warnings = <<>>
    /\ status = None
    /\ computed = <<>>

Locate ==
    /\ pc = "locate"
    /\ found' = _find_markers(clause, alias_map)
    /\ pc' = "located"
    /\ UNCHANGED <<defs, alias_map, nclauses, clause, marker_segments, clause_level_data,
                   negative_for_clause, clause_data, markers, errors, warnings, status,
                   computed>>

NextLocator == Locate

SpecLocator == InitLocator /\ [][NextLocator]_vars

(***************************************************************************)
(* The percent parser alone, over arbitrary spans                          *)
(***************************************************************************)
MaxSpanLen == 4

\* "30%" is the literal followed by a blank or the end of the span, "30%of"
\* the literal followed by a word character; "%" and "%of" are the same
\* two with a blank between the digits and the percent sign
PercentTokens == {"30", "20", "30%", "30%of", "%", "%of", "percent", "to",
                  "thirty", "strong"}

InitPercent ==
    /\ defs = <<>>
    /\ alias_map = <<>>
    /\ pc = "percent"
    /\ nclauses = 0
    /\ clause \in SeqsUpTo(PercentTokens, MaxSpanLen)
    /\ found = <<>>
    /\ marker_segments = <<>>
    /\ clause_level_data = NoData
    /\ negative_for_clause = FALSE
    /\ clause_data = NoData
    /\ markers = <<>>
    /\ errors = <<>>
    /\ warnings = <<>>
    /\ status = None
    /\ computed = <<>>

ParsePercent ==
    /\ pc = "percent"
    /\ clause_data' = [NoData EXCEPT
                         !.percent_positive = _parse_percent(clause).percent,
                         !.percent_approximate = _parse_percent(clause).approximate]
    /\ pc' = "parsed"
    /\ UNCHANGED <<defs, alias_map, nclauses, clause, found, marker_segments,
                   clause_level_data, negative_for_clause, markers, errors, warnings,
                   status, computed>>

NextPercent == ParsePercent

SpecPercent == InitPercent /\ [][NextPercent]_vars

(***************************************************************************)
(* Properties                                                              *)
(***************************************************************************)
HasIssue(issues, code, can) ==
    \E i \in 1..Len(issues) : issues[i].code = code /\ issues[i].marker_canonical = can

CountIssue(issues, code, can) ==
    Cardinality({i \in 1..Len(issues) :
                   issues[i].code = code /\ issues[i].marker_canonical = can})

\* the stored state of a canonical id, or a fresh one when it has none yet
StateOf(ms, can) ==
    IF IndexOf(ms, can) = 0 THEN MarkerState(None, can) ELSE ms[IndexOf(ms, can)]

\* C1: in the returned output the status is failed iff errors is non-empty,
\* needs_review iff errors is empty and warnings is non-empty, ok otherwise.
C1_StatusFromIssues ==
    pc = "done" =>
        /\ status = "failed" <=> errors # <<>>
        /\ status = "needs_review" <=> (errors = <<>> /\ warnings # <<>>)
        /\ status = "ok" <=> (errors = <<>> /\ warnings = <<>>)

C1_Witness ==
    pc = "done" /\ markers # <<>> /\ errors = <<>> /\ warnings # <<>>
    /\ status = "needs_review"

\* C2: a marker that ends Negative with a percent above zero has a
\* CONTRADICTORY_RESULT_PERCENT error, and the case is failed.
C2_NegativeWithPercent ==
    pc = "done" =>
        \A i \in 1..Len(markers) :
            (/\ markers[i].result = "Negative"
             /\ markers[i].percent_positive # <<>>
             /\ markers[i].percent_positive[1] > 0)
            => /\ HasIssue(errors, "CONTRADICTORY_RESULT_PERCENT", markers[i].marker_canonical)
               /\ status = "failed"

C2_Witness ==
    /\ pc = "done"
    /\ \E i \in 1..Len(markers) :
         /\ markers[i].result = "Negative"
         /\ markers[i].percent_positive = <<30>>
         /\ markers[i].evidence > 1
         /\ HasIssue(errors, "CONTRADICTORY_RESULT_PERCENT", markers[i].marker_canonical)

\* C3: a marker whose final pattern is outside its allowed patterns has exactly
\* one of INVALID_PATTERN (an error, when the marker enforces patterns) and
\* UNUSUAL_PATTERN (a warning, otherwise); a marker with no pattern or an
\* allowed one has neither.
C3_PatternIssue ==
    pc = "done" =>
        \A i \in 1..Len(markers) :
            LET can == markers[i].marker_canonical
                md == DefOf(defs, can)
                invalid == CountIssue(errors, "INVALID_PATTERN", can)
                          + CountIssue(warnings, "INVALID_PATTERN", can)
                unusual == CountIssue(errors, "UNUSUAL_PATTERN", can)
                          + CountIssue(warnings, "UNUSUAL_PATTERN", can)
            IN  IF markers[i].pattern # None /\ markers[i].pattern \notin md.allowed_patterns
                THEN IF md.hard_pattern_enforce
                     THEN CountIssue(errors, "INVALID_PATTERN", can) = 1
                          /\ invalid = 1 /\ unusual = 0
                     ELSE CountIssue(warnings, "UNUSUAL_PATTERN", can) = 1
                          /\ unusual = 1 /\ invalid = 0
                ELSE invalid = 0 /\ unusual = 0

C3_Witness ==
    /\ pc = "done"
    /\ Len(markers) = 2
    /\ \E i \in 1..Len(markers) :
         /\ markers[i].pattern # None
         /\ ~DefOf(defs, markers[i].marker_canonical).hard_pattern_enforce
         /\ CountIssue(warnings, "UNUSUAL_PATTERN", markers[i].marker_canonical) = 1
    /\ \E i \in 1..Len(markers) :
         /\ markers[i].pattern # None
         /\ DefOf(defs, markers[i].marker_canonical).hard_pattern_enforce
         /\ CountIssue(errors, "INVALID_PATTERN", markers[i].marker_canonical) = 1

\* the wording C4 speaks of: pattern, intensity, extent, percent, controls, hedge
PercentWords == {"percent", "%of", "to"} \cup DOMAIN Digits \cup DOMAIN WORDS
ControlWords == CONTROL_RE \cup ADEQUATE_RE \cup InadequateTokens
HedgeWords == HEDGE_RE \cup {"kind"}
ModifierWords ==
    PATTERN_RE \cup INTENSITY_RE \cup EXTENT_RE \cup PercentWords \cup ControlWords
    \cup HedgeWords

\* the clause with every modifier word at or after token p replaced by a neutral word
Neutralize(c, p) ==
    [i \in 1..Len(c) |-> IF i >= p /\ c[i] \in ModifierWords THEN "staining" ELSE c[i]]

\* the segment loop of one clause, run on marker states ms
RECURSIVE FoldSegments(_, _, _, _)
FoldSegments(ms, segs, cl_data, neg_for) ==
    IF segs = <<>> THEN ms
    ELSE LET can == Head(segs).marker_canonical
             i == IndexOf(ms, can)
             old == IF i = 0 THEN MarkerState(Head(segs).display_name, can) ELSE ms[i]
             new == MergeState(old, SegmentData(Head(segs).segment_text, cl_data, neg_for))
         IN  FoldSegments(IF i = 0 THEN Append(ms, new) ELSE [ms EXCEPT ![i] = new],
                          Tail(segs), cl_data, neg_for)

RunClause(ms, c, amap) ==
    FoldSegments(ms, split_clause_by_markers(c, _find_markers(c, amap)),
                 _extract_clause_data(c), HasPair(c, "negative", "for"))

\* mentions i < j of different markers A, B, with no mention of A from j on
Downstream(i, j) ==
    /\ i < j
    /\ \A k \in j..Len(found) :
         found[k].md.marker_canonical # found[i].md.marker_canonical

NoneBefore(S, p) == \A q \in 1..(p - 1) : clause[q] \notin S

\* C4: when A's mention precedes B's and A is not mentioned again after B, the
\* modifier words at or after the start of B's mention do not reach A: after
\* the clause A's state is what it is with those words replaced by a neutral
\* word, and a field whose wording occurs only from B on keeps its default
\* (so A has no pattern, hence no INVALID_PATTERN, from a downstream pattern).
C4_SegmentScoping ==
    (pc = "clause_end" /\ nclauses = 1) =>
        \A i \in 1..Len(found) : \A j \in 1..Len(found) :
            Downstream(i, j) =>
                LET can == found[i].md.marker_canonical
                    p == found[j].span[1]
                    a == StateOf(markers, can)
                    b == StateOf(RunClause(<<>>, Neutralize(clause, p), alias_map), can)
                IN  /\ a.pattern = b.pattern
                    /\ a.intensity = b.intensity
                    /\ a.extent = b.extent
                    /\ a.percent_positive = b.percent_positive
                    /\ a.percent_approximate = b.percent_approximate
                    /\ a.controls = b.controls
                    /\ a.confidence = b.confidence
                    /\ NoneBefore(PATTERN_RE, p) => a.pattern = None
                    /\ NoneBefore(INTENSITY_RE, p) => a.intensity = None
                    /\ NoneBefore(EXTENT_RE, p) => a.extent = None
                    /\ NoneBefore({"percent", "%of"}, p) =>
                           a.percent_positive = <<>> /\ ~a.percent_approximate
                    /\ NoneBefore(CONTROL_RE, p) => a.controls = "not mentioned"
                    /\ NoneBefore(HedgeWords, p) => a.confidence # "uncertain"
                    /\ NoneBefore(PATTERN_RE, p) =>
                           ~HasIssue(ValidateErrors(a, DefOf(defs, can)),
                                     "INVALID_PATTERN", can)

\* "ttf1 her2 membranous ...": a pattern TTF1 does not allow follows HER2
C4_Witness ==
    /\ pc = "clause_end" /\ nclauses = 1
    /\ Len(found) = 2
    /\ found[1].md.marker_canonical = "TTF1"
    /\ found[2].md.marker_canonical = "HER2"
    /\ \E q \in found[2].span[1]..Len(clause) : clause[q] = "membranous"
    /\ \E q \in found[2].span[1]..Len(clause) : clause[q] \in HedgeWords \cup {"percent"}
    /\ StateOf(markers, "TTF1").pattern = None
    /\ StateOf(markers, "HER2").pattern = "membranous"

\* C9: a segment without a result word of its own takes the result of the
\* whole clause (Not Done before Positive before Negative); a segment with a
\* result word keeps its own result.
C9_ClauseResultFallback ==
    pc = "merge" =>
        LET seg == Head(marker_segments).segment_text
            notdone(t) == \/ \E q \in 1..Len(t) : t[q] \in {"awaited", "pending"}
                          \/ \E q \in 1..(Len(t) - 1) : t[q] = "not" /\ t[q + 1] = "done"
            pos(t) == \E q \in 1..Len(t) : t[q] \in {"positive", "positivity"}
            neg(t) == \E q \in 1..Len(t) : t[q] = "negative"
            own == notdone(seg) \/ pos(seg) \/ neg(seg)
            byPrecedence(t) == IF notdone(t) THEN "Not Done"
                               ELSE IF pos(t) THEN "Positive" ELSE "Negative"
        IN  /\ (~own /\ (notdone(clause) \/ pos(clause) \/ neg(clause)))
                   => clause_data.result = byPrecedence(clause)
            /\ own => clause_data.result = byPrecedence(seg)

\* "ttf1 negative her2 pending": TTF1 keeps Negative although the clause is Not Done;
\* and a later segment without a result word in a clause with two kinds of result words
C9_Witness ==
    /\ pc = "merge"
    /\ Len(found) = 2
    /\ Len(marker_segments) = 1
    /\ clause_level_data.result = "Not Done"
    /\ \E q \in 1..Len(clause) : clause[q] = "positive"
    /\ ExtractResult(Head(marker_segments).segment_text) = None
    /\ clause_data.result = "Not Done"
    /\ StateOf(markers, found[1].md.marker_canonical).result = "Positive"

\* C5 as stated: without any marker state the errors are the single error
\* NO_MARKERS_FOUND and the case is failed; with a marker state
\* NO_MARKERS_FOUND is absent.
C5_OnlyNoMarkersFound ==
    pc = "done" =>
        IF markers = <<>>
        THEN errors = <<Issue("NO_MARKERS_FOUND", "error", None, None)>>
             /\ status = "failed"
        ELSE ~HasIssue(errors, "NO_MARKERS_FOUND", None)

\* C5 amended: without any marker state the errors end with the one and only
\* NO_MARKERS_FOUND, every error before it is an UNKNOWN_MARKER of a
\* markerless clause, and the case is failed; with a marker state
\* NO_MARKERS_FOUND is absent.
C5_NoMarkersFoundLast ==
    pc = "done" =>
        IF markers = <<>>
        THEN /\ errors # <<>>
             /\ errors[Len(errors)] = Issue("NO_MARKERS_FOUND", "error", None, None)
             /\ \A i \in 1..(Len(errors) - 1) : errors[i].code = "UNKNOWN_MARKER"
             /\ status = "failed"
        ELSE ~HasIssue(errors, "NO_MARKERS_FOUND", None)

\* "strong positive": no alias, one unknown marker, then NO_MARKERS_FOUND
C5_Witness ==
    /\ pc = "done" /\ markers = <<>> /\ nclauses = 2
    /\ Len(errors) = 2
    /\ errors[1].code = "UNKNOWN_MARKER"
    /\ errors[2].code = "NO_MARKERS_FOUND"

\* the segment being merged, its marker and what it carries
MergingCan == Head(marker_segments).marker_canonical
CarriesAttribute ==
    \/ clause_data.intensity \in {"weak", "moderate", "strong"}
    \/ clause_data.pattern \in {"nuclear", "cytoplasmic", "membranous"}
    \/ clause_data.percent_positive # <<>>
    \/ clause_data.percent_approximate
    \/ clause_data.extent \in {"focal", "diffuse"}
InferringMerge == pc = "merge" /\ clause_data.result = None /\ CarriesAttribute

\* a marker with a RESULT_INFERRED warning has a result, gets no
\* RESULT_MISSING, and its case does not end ok
InferredNeverMissing ==
    \A i \in 1..Len(markers) :
        HasIssue(warnings, "RESULT_INFERRED", markers[i].marker_canonical) =>
            /\ markers[i].result # None
            /\ ~HasIssue(errors, "RESULT_MISSING", markers[i].marker_canonical)
            /\ pc = "done" => status \in {"needs_review", "failed"}

\* C6 as stated: merging a segment whose result is still null after the
\* fallbacks but which carries an attribute sets the result to Positive and
\* the confidence to inferred and appends exactly one RESULT_INFERRED warning
\* for the marker; such a marker never gets RESULT_MISSING, its case is never ok.
C6_InferredConfidence ==
    /\ [][InferringMerge =>
            /\ StateOf(markers', MergingCan).result = "Positive"
            /\ StateOf(markers', MergingCan).confidence = "inferred"
            /\ CountIssue(warnings', "RESULT_INFERRED", MergingCan)
                 = CountIssue(warnings, "RESULT_INFERRED", MergingCan) + 1]_vars
    /\ []InferredNeverMissing

\* C6 amended: as stated, except that the confidence becomes inferred only
\* when the segment has no hedge wording; with hedge wording it becomes uncertain.
C6_InferredUnlessHedged ==
    /\ [][InferringMerge =>
            /\ StateOf(markers', MergingCan).result = "Positive"
            /\ StateOf(markers', MergingCan).confidence
                 = (IF \E q \in 1..Len(Head(marker_segments).segment_text) :
                          Head(marker_segments).segment_text[q] \in HedgeWords
                    THEN "uncertain" ELSE "inferred")
            /\ CountIssue(warnings', "RESULT_INFERRED", MergingCan)
                 = CountIssue(warnings, "RESULT_INFERRED", MergingCan) + 1
            /\ Len(warnings') - Len(warnings) =
                 CountIssue(warnings', "RESULT_INFERRED", MergingCan)
                 - CountIssue(warnings, "RESULT_INFERRED", MergingCan)
                 + CountIssue(warnings', "LOW_CONFIDENCE", MergingCan)
                 - CountIssue(warnings, "LOW_CONFIDENCE", MergingCan)
                 + CountIssue(warnings', "PERCENT_APPROXIMATE", MergingCan)
                 - CountIssue(warnings, "PERCENT_APPROXIMATE", MergingCan)]_vars
    /\ []InferredNeverMissing

\* a marker stated Negative, then "<marker> maybe strong": inferred Positive,
\* contradicting, and left uncertain by the hedge word of the same segment
C6_Witness ==
    /\ pc = "done"
    /\ \E i \in 1..Len(markers) :
         /\ markers[i].confidence = "uncertain"
         /\ markers[i].result = "Positive"
         /\ markers[i].evidence = 2
         /\ CountIssue(warnings, "RESULT_INFERRED", markers[i].marker_canonical) = 1
         /\ CountIssue(warnings, "LOW_CONFIDENCE", markers[i].marker_canonical) = 1
         /\ HasIssue(errors, "CONTRADICTORY_RESULT", markers[i].marker_canonical)

\* "<word> to <word> percent" somewhere in the text
HasRange(t) ==
    \E q \in 1..(Len(t) - 3) :
        /\ t[q] \notin PunctTokens /\ t[q + 1] = "to"
        /\ t[q + 2] \notin PunctTokens /\ t[q + 3] = "percent"

\* C7: merging a segment that contains a percent range sets the marker's
\* percent_approximate flag, appends a PERCENT_APPROXIMATE warning for the
\* marker and leaves percent_positive as it was; the flag, once set, stays
\* set through every later step; and a case with a marker whose flag is set
\* does not end ok.
C7_ApproximateSticky ==
    /\ [][(pc = "merge" /\ HasRange(Head(marker_segments).segment_text)) =>
            /\ StateOf(markers', MergingCan).percent_approximate
            /\ StateOf(markers', MergingCan).percent_positive
                 = StateOf(markers, MergingCan).percent_positive
            /\ warnings' # <<>>
            /\ warnings'[Len(warnings')]
                 = Issue("PERCENT_APPROXIMATE", "warning", MergingCan, "percent_positive")
            /\ CountIssue(warnings', "PERCENT_APPROXIMATE", MergingCan)
                 = CountIssue(warnings, "PERCENT_APPROXIMATE", MergingCan) + 1]_vars
    /\ [][\A i \in 1..Len(markers) :
            markers[i].percent_approximate =>
                /\ Len(markers') >= i
                /\ markers'[i].marker_canonical = markers[i].marker_canonical
                /\ markers'[i].percent_approximate]_vars
    /\ [](pc = "done" =>
            \A i \in 1..Len(markers) :
                markers[i].percent_approximate => status \in {"needs_review", "failed"})

\* a range first, an exact percent in a later clause: the flag survives
C7_Witness ==
    /\ pc = "done"
    /\ \E i \in 1..Len(markers) :
         /\ markers[i].percent_approximate
         /\ markers[i].percent_positive = <<30>>
         /\ markers[i].evidence = 2
         /\ CountIssue(warnings, "PERCENT_APPROXIMATE", markers[i].marker_canonical) = 1
         /\ status = "needs_review"

\* the non-null results written for canonical id can, in order
RECURSIVE WrittenFor(_, _)
WrittenFor(h, can) ==
    IF h = <<>> THEN <<>>
    ELSE LET rest == WrittenFor(SubSeq(h, 1, Len(h) - 1), can)
             last == h[Len(h)]
         IN  IF last[1] = can /\ last[2] # None THEN Append(rest, last[2]) ELSE rest

Changes(rs) == Cardinality({q \in 1..(Len(rs) - 1) : rs[q] # rs[q + 1]})

\* the result the segment being merged carries: its own or fallback result,
\* else Positive when it has an attribute, else null
ComputedResult ==
    IF clause_data.result # None THEN clause_data.result
    ELSE IF CarriesAttribute THEN "Positive" ELSE None

\* C8: a merge with a non-null computed result overwrites the stored result
\* and appends a CONTRADICTORY_RESULT error exactly when the stored result was
\* non-null and different; a merge with a null computed result changes
\* neither.  At every point the stored result is the last non-null computed
\* result and the CONTRADICTORY_RESULT errors of a marker count the changes
\* between consecutive non-null computed results.
C8_LastWriteWins ==
    /\ [][pc = "merge" =>
            LET old == StateOf(markers, MergingCan).result
                added == CountIssue(errors', "CONTRADICTORY_RESULT", MergingCan)
                         - CountIssue(errors, "CONTRADICTORY_RESULT", MergingCan)
            IN  IF ComputedResult # None
                THEN /\ StateOf(markers', MergingCan).result = ComputedResult
                     /\ added = (IF old # None /\ old # ComputedResult THEN 1 ELSE 0)
                ELSE /\ StateOf(markers', MergingCan).result = old
                     /\ added = 0]_vars
    /\ [](\A i \in 1..Len(markers) :
            LET can == markers[i].marker_canonical
                rs == WrittenFor(computed, can)
            IN  /\ markers[i].result = (IF rs = <<>> THEN None ELSE rs[Len(rs)])
                /\ CountIssue(errors, "CONTRADICTORY_RESULT", can) = Changes(rs))

\* one marker over two clauses: Negative twice, then Positive (one error),
\* then a segment that computes nothing
C8_Witness ==
    /\ pc = "done"
    /\ \E i \in 1..Len(markers) :
         /\ WrittenFor(computed, markers[i].marker_canonical)
              = <<"Negative", "Negative", "Positive">>
         /\ markers[i].evidence = 4
         /\ markers[i].result = "Positive"
         /\ CountIssue(errors, "CONTRADICTORY_RESULT", markers[i].marker_canonical) = 1

\* C10: the mentions the locator returns have pairwise disjoint spans.
C10_DisjointSpans ==
    pc \in {"located", "extract", "merge", "clause_end"} =>
        \A i \in 1..Len(found) : \A j \in 1..Len(found) :
            i # j => \/ found[i].span[2] <= found[j].span[1]
                     \/ found[j].span[2] <= found[i].span[1]

\* a literal "NN%", whatever follows it
PctLiteral == ("30%" :> 30) @@ DigitsGlued
PctLiteralAt(t) ==
    {i \in 1..Len(t) :
       \/ t[i] \in DOMAIN PctLiteral
       \/ i < Len(t) /\ t[i] \in DOMAIN Digits /\ t[i + 1] \in {"%", "%of"}}
\* the values the literals "NN%" and "NN percent" of a span write
LiteralValues(t) ==
    {IF t[i] \in DOMAIN PctLiteral THEN PctLiteral[t[i]] ELSE Digits[t[i]] :
       i \in PctLiteralAt(t) \cup PctWordAt(t)}

\* C11: the percent of a span is (None, approximate) when the span holds a
\* range "X to Y percent"; otherwise the exact value of a literal "NN%" or
\* "NN percent" of the span, whatever follows the literal; otherwise the
\* table value of the word before "percent"; otherwise (None, exact).
C11_PercentPrecedence ==
    pc = "parsed" =>
        IF RangeAt(clause) # {}
        THEN /\ clause_data.percent_positive = <<>>
             /\ clause_data.percent_approximate = TRUE
        ELSE /\ clause_data.percent_approximate = FALSE
             /\ IF LiteralValues(clause) # {}
                THEN \E v \in LiteralValues(clause) : clause_data.percent_positive = <<v>>
                ELSE IF AnyPctAt(clause) # {}
                     THEN clause_data.percent_positive
                            = _to_num_word(LastWord(clause[Min(AnyPctAt(clause))]))
                     ELSE clause_data.percent_positive = <<>>

====
